---- MODULE Spec2Model ----
(***************************************************************************)
(* BufferedInputStream (src/input/BufferedInputStream.cxx): a worker       *)
(* thread prefetches an underlying input stream into a sparse buffer as    *)
(* large as the stream, while consumer threads call Read() and Seek().     *)
(* All fields are protected by one mutex; the worker sleeps on wake_cond,  *)
(* consumers sleep on client_cond.  input->Seek() and input->Read() take   *)
(* the lock and may release it while they block, so consumer calls can run *)
(* while such an operation is in flight.                                   *)
(***************************************************************************)
EXTENDS Integers, Sequences, FiniteSets, TLC

\* ---------------------------------------------------------------- bounds
\* size of the stream (input->GetSize()), also the capacity of the buffer
Size == 3
\* largest destination size s passed to Read()
MaxLen == 2

Threads == {"c1", "c2"}

VARIABLES
    offset,       \* InputStream::offset, the consumer's read position
    buffer,       \* SparseBuffer: position -> byte, NoData where undefined
    stop,         \* bool stop
    seek,         \* bool seek (a Seek() call waits for the worker)
    seek_offset,  \* offset_type seek_offset
    idle,         \* bool idle
    seek_error,   \* std::exception_ptr seek_error (TRUE: an exception is stored)
    read_error,   \* std::exception_ptr read_error
    inOffset,     \* input->GetOffset()
    inAvail,      \* input->IsAvailable()
    inSeeks,      \* parity of the number of input->Seek() calls begun so far
    wpc,          \* position of the worker thread in RunThread()
    io_target,    \* argument of the input->Seek() call in flight
    read_offset,  \* local read_offset of the input->Read() call in flight
    w_size,       \* size of the writable span w of the Read() call in flight
    consumers,    \* the consumer threads that exist
    cpc,          \* position of each consumer thread
    carg,         \* argument of each consumer's call in progress
    cret,         \* outcome of the last call of each consumer that returned
    returned      \* bytes returned by Read() so far; -1 once Seek() was called

vars == <<offset, buffer, stop, seek, seek_offset, idle, seek_error, read_error,
          inOffset, inAvail, inSeeks, wpc, io_target, read_offset, w_size,
          consumers, cpc, carg, cret, returned>>

progVars == <<offset, buffer, stop, seek, seek_offset, idle, seek_error, read_error>>
inputVars == <<inOffset, inAvail, inSeeks>>
workerVars == <<wpc, io_target, read_offset, w_size>>

Min(a, b) == IF a < b THEN a ELSE b

\* ---------------------------------------------------------- the input
\* the byte the underlying stream holds at position p
SourceByte(p) == p + 1
NoData == 0

\* the n bytes the underlying stream holds from position p on
SourceBytes(p, n) == [i \in 1..n |-> SourceByte(p + i - 1)]

\* input->IsEOF()
InputIsEOF(pos) == pos >= Size

\* ------------------------------------------------------ the sparse buffer
\* number of defined bytes of b starting at position p
RECURSIVE DefinedSize(_, _)
DefinedSize(b, p) ==
    IF p >= Size \/ b[p] = NoData THEN 0 ELSE 1 + DefinedSize(b, p + 1)

\* number of undefined bytes of b starting at position p
RECURSIVE UndefinedSize(_, _)
UndefinedSize(b, p) ==
    IF p >= Size \/ b[p] # NoData THEN 0 ELSE 1 + UndefinedSize(b, p + 1)

\* buffer.Read(p).HasData()
HasData(b, p) == p < Size /\ b[p] # NoData

\* the sizes buffer.Read(p).defined_buffer can have: a run of defined bytes
\* starting at p, no longer than what is defined there
ReadSizes(b, p) == 1..DefinedSize(b, p)

\* buffer.Write(p).size: the writable span at p, empty where p is defined
WriteSize(b, p) == UndefinedSize(b, p)

\* buffer.Commit(start, end_) after the bytes data were stored at start
Commit(b, start, end_, data) ==
    [p \in 0..(Size - 1) |->
        IF start <= p /\ p < end_ THEN data[p - start + 1] ELSE b[p]]

\* the n bytes of b from position p on (memcpy out of defined_buffer)
CopyOut(b, p, n) == [i \in 1..n |-> b[p + i - 1]]

\* ------------------------------------------------------------ conditions
\* faulty variant of NotifyWorker: the notification is lost
NotifyWorkerLost(w) == w

\* wake_cond.notify_one(): the worker is the only thread that waits on it
NotifyWorker(w) == IF w = "waiting" THEN "ready" ELSE w

Waiters(cp) == {c \in Threads : cp[c] \in {"read_wait", "seek_wait"}}

Woken(pcv) == IF pcv = "read_wait" THEN "read_woken" ELSE "seek_woken"

\* faulty variant of NotifyClient: the notification is lost
NotifyClientLost(cp) == {cp}

\* client_cond.notify_one(): the positions the consumers can have afterwards;
\* one of the waiting threads is woken, no thread if none waits
NotifyClient(cp) ==
    IF Waiters(cp) = {} THEN {cp}
    ELSE {[cp EXCEPT ![c] = Woken(cp[c])] : c \in Waiters(cp)}

\* the mutex is free: the worker holds it while it is at the top of its loop,
\* every other step of the model is one critical section
LockFree == wpc # "loop"

\* ------------------------------------------------------------- the facade
\* BufferedInputStream::IsEOF()
IsEOF(off) == off = Size

\* BufferedInputStream::IsAvailable()
IsAvailable(off, b) == IsEOF(off) \/ HasData(b, off)

NoRet == [kind |-> "none", pos |-> 0, bytes |-> <<>>]
Ret(k, p, bs) == [kind |-> k, pos |-> p, bytes |-> bs]

\* faulty variant of ReadNBytes: ignores the size of the destination
ReadNBytesAll(s, defined) == defined

\* std::min(s, r.defined_buffer.size)
ReadNBytes(s, defined) == Min(s, defined)

\* faulty variant of ReadNeedsWake: Read() never wakes the worker after
\* advancing
ReadNeedsWakeNever(off, b) == FALSE

\* Read() must clear idle and wake the worker after advancing to off
ReadNeedsWake(off, b) == ~IsAvailable(off, b)

\* one pass of the loop of Read() for thread c with destination size s
ReadLoop(c, s) ==
    IF HasData(buffer, offset) THEN
        \E defined \in ReadSizes(buffer, offset) :
            LET nbytes == ReadNBytes(s, defined)
                wake == ReadNeedsWake(offset + nbytes, buffer) IN
            /\ offset' = offset + nbytes
            /\ idle' = IF wake THEN FALSE ELSE idle
            /\ wpc' = IF wake THEN NotifyWorker(wpc) ELSE wpc
            /\ cpc' = [cpc EXCEPT ![c] = "idle"]
            /\ carg' = [carg EXCEPT ![c] = 0]
            /\ cret' = [cret EXCEPT ![c] =
                           Ret("data", offset, CopyOut(buffer, offset, nbytes))]
            /\ returned' = IF returned < 0 THEN returned ELSE returned + nbytes
            /\ UNCHANGED read_error
    ELSE IF read_error THEN
        /\ wpc' = NotifyWorker(wpc)
        /\ read_error' = FALSE
        /\ cpc' = [cpc EXCEPT ![c] = "idle"]
        /\ carg' = [carg EXCEPT ![c] = 0]
        /\ cret' = [cret EXCEPT ![c] = Ret("read_error", offset, <<>>)]
        /\ UNCHANGED <<offset, idle, returned>>
    ELSE
        /\ idle' = FALSE
        /\ wpc' = IF idle THEN NotifyWorker(wpc) ELSE wpc
        /\ cpc' = [cpc EXCEPT ![c] = "read_wait"]
        /\ carg' = [carg EXCEPT ![c] = s]
        /\ UNCHANGED <<offset, read_error, cret, returned>>

\* a consumer calls Read(lock, ptr, s)
ReadCall(c, s) ==
    /\ c \in consumers /\ cpc[c] = "idle" /\ ~stop /\ LockFree
    /\ IF offset >= Size THEN
           /\ cret' = [cret EXCEPT ![c] = Ret("eof", offset, <<>>)]
           /\ UNCHANGED <<offset, idle, read_error, wpc, cpc, carg, returned>>
       ELSE ReadLoop(c, s)
    /\ UNCHANGED <<buffer, stop, seek, seek_offset, seek_error>>
    /\ UNCHANGED <<inputVars, io_target, read_offset, w_size, consumers>>

\* client_cond.wait(lock) in Read() returns and the loop runs again
ReadWake(c) ==
    /\ cpc[c] = "read_woken" /\ LockFree
    /\ ReadLoop(c, carg[c])
    /\ UNCHANGED <<buffer, stop, seek, seek_offset, seek_error>>
    /\ UNCHANGED <<inputVars, io_target, read_offset, w_size, consumers>>

\* faulty variant of SeekIsNoOp: a Seek() to the current offset is a no-op too
SeekIsNoOpAtOffset(b, new_offset) == HasData(b, new_offset) \/ new_offset = offset

\* faulty variant of SeekIsNoOp: looks for data at the current offset
SeekIsNoOpCurrent(b, new_offset) == HasData(b, offset)

\* Seek() returns without asking the worker: data is buffered at new_offset
SeekIsNoOp(b, new_offset) == HasData(b, new_offset)

\* faulty variant of SeekPastEnd: the requested offset is stored as it is
SeekPastEndUnclamped(new_offset) == new_offset

\* if (new_offset >= size) offset = size
SeekPastEnd(new_offset) == Size

\* a consumer calls Seek(lock, new_offset)
SeekCall(c, new_offset) ==
    /\ c \in consumers /\ cpc[c] = "idle" /\ ~stop /\ LockFree
    /\ returned' = -1
    /\ IF new_offset >= Size THEN
           /\ offset' = SeekPastEnd(new_offset)
           /\ cret' = [cret EXCEPT ![c] = Ret("seek_eof", new_offset, <<>>)]
           /\ UNCHANGED <<seek, seek_offset, wpc, cpc, carg>>
       ELSE IF SeekIsNoOp(buffer, new_offset) THEN
           /\ offset' = new_offset
           /\ cret' = [cret EXCEPT ![c] = Ret("seek_noop", new_offset, <<>>)]
           /\ UNCHANGED <<seek, seek_offset, wpc, cpc, carg>>
       ELSE
           /\ seek_offset' = new_offset
           /\ seek' = TRUE
           /\ wpc' = NotifyWorker(wpc)
           /\ cpc' = [cpc EXCEPT ![c] = "seek_wait"]
           /\ carg' = [carg EXCEPT ![c] = new_offset]
           /\ UNCHANGED <<offset, cret>>
    /\ UNCHANGED <<buffer, stop, idle, seek_error, read_error>>
    /\ UNCHANGED <<inputVars, io_target, read_offset, w_size, consumers>>

\* faulty variant of SeekDoneOffset: offset is assigned before seek_error is
\* looked at
SeekDoneOffsetAlways(off, new_offset, failed) == new_offset

\* the offset when Seek() ends after waiting: rethrowing seek_error leaves
\* offset alone, else offset = new_offset
SeekDoneOffset(off, new_offset, failed) == IF failed THEN off ELSE new_offset

\* client_cond.wait(lock, [this]{ return !seek; }) in Seek() is woken
SeekWake(c) ==
    /\ cpc[c] = "seek_woken" /\ LockFree
    /\ IF seek THEN
           /\ cpc' = [cpc EXCEPT ![c] = "seek_wait"]
           /\ UNCHANGED <<offset, seek_error, carg, cret>>
       ELSE
           /\ seek_error' = FALSE
           /\ offset' = SeekDoneOffset(offset, carg[c], seek_error)
           /\ cpc' = [cpc EXCEPT ![c] = "idle"]
           /\ carg' = [carg EXCEPT ![c] = 0]
           /\ cret' = [cret EXCEPT ![c] =
                          Ret(IF seek_error THEN "seek_error" ELSE "seek_ok",
                              carg[c], <<>>)]
    /\ UNCHANGED <<buffer, stop, seek, seek_offset, idle, read_error>>
    /\ UNCHANGED <<inputVars, workerVars, consumers, returned>>

\* a wait on client_cond returns without a notification
SpuriousClientWake(c) ==
    /\ cpc[c] \in {"read_wait", "seek_wait"}
    /\ cpc' = [cpc EXCEPT ![c] = Woken(cpc[c])]
    /\ UNCHANGED <<progVars, inputVars, workerVars, consumers, carg, cret, returned>>

\* variant of Destroy that also wakes every consumer waiting on client_cond
DestroyWakesClients ==
    /\ ~stop /\ LockFree
    /\ stop' = TRUE
    /\ wpc' = NotifyWorker(wpc)
    /\ cpc' = [c \in Threads |->
                 IF c \in Waiters(cpc) THEN Woken(cpc[c]) ELSE cpc[c]]
    /\ UNCHANGED <<offset, buffer, seek, seek_offset, idle, seek_error, read_error>>
    /\ UNCHANGED <<inputVars, io_target, read_offset, w_size>>
    /\ UNCHANGED <<consumers, carg, cret, returned>>

\* ~BufferedInputStream(): stop = true; wake_cond.notify_one(); then Join()
Destroy ==
    /\ ~stop /\ LockFree
    /\ stop' = TRUE
    /\ wpc' = NotifyWorker(wpc)
    /\ UNCHANGED <<offset, buffer, seek, seek_offset, idle, seek_error, read_error>>
    /\ UNCHANGED <<inputVars, io_target, read_offset, w_size>>
    /\ UNCHANGED <<consumers, cpc, carg, cret, returned>>

\* ------------------------------------------------------------- the worker
\* the worker thread takes the mutex: at the start of RunThread(), or when
\* wake_cond.wait(lock) returns
WorkerAcquire ==
    /\ wpc = "ready"
    /\ wpc' = "loop"
    /\ UNCHANGED <<progVars, inputVars, io_target, read_offset, w_size>>
    /\ UNCHANGED <<consumers, cpc, carg, cret, returned>>

\* while (!stop): the loop ends
WorkerExit ==
    /\ wpc = "loop" /\ stop
    /\ wpc' = "done"
    /\ UNCHANGED <<progVars, inputVars, io_target, read_offset, w_size>>
    /\ UNCHANGED <<consumers, cpc, carg, cret, returned>>

\* one more call of input->Seek(): every call flips the parity
CountSeek(n) == 1 - n

\* faulty variant of WorkerSeekBegin: the loop looks at seek before stop
WorkerSeekBeginDespiteStop ==
    /\ wpc = "loop" /\ seek
    /\ wpc' = "in_seek"
    /\ io_target' = seek_offset
    /\ inSeeks' = CountSeek(inSeeks)
    /\ UNCHANGED <<progVars, inOffset, inAvail, read_offset, w_size>>
    /\ UNCHANGED <<consumers, cpc, carg, cret, returned>>

\* if (seek): input->Seek(lock, seek_offset) begins
WorkerSeekBegin ==
    /\ wpc = "loop" /\ ~stop /\ seek
    /\ wpc' = "in_seek"
    /\ io_target' = seek_offset
    /\ inSeeks' = CountSeek(inSeeks)
    /\ UNCHANGED <<progVars, inOffset, inAvail, read_offset, w_size>>
    /\ UNCHANGED <<consumers, cpc, carg, cret, returned>>

\* faulty variant of StalePosition: the loop has no stale-position branch
StalePositionNever == FALSE

\* faulty variant of StalePosition: does not look at read_error
StalePositionDespiteError ==
    /\ ~idle
    /\ offset # inOffset
    /\ ~IsAvailable(offset, buffer)

\* the second branch of the loop: the input reads somewhere else than the
\* consumer, which has no data at its offset
StalePosition ==
    /\ ~idle /\ ~read_error
    /\ offset # inOffset
    /\ ~IsAvailable(offset, buffer)

\* faulty variant of CanPrefetch: does not look at read_error
CanPrefetchDespiteError ==
    /\ ~idle
    /\ inAvail /\ ~InputIsEOF(inOffset)

\* the third branch of the loop: the input can be read without blocking
CanPrefetch ==
    /\ ~idle /\ ~read_error
    /\ inAvail /\ ~InputIsEOF(inOffset)

\* faulty variant of WorkerCorrectBegin: the stale-position test is made
\* without looking at seek first
WorkerCorrectBeginFirst ==
    /\ wpc = "loop" /\ ~stop
    /\ StalePosition
    /\ wpc' = "in_correct"
    /\ io_target' = offset
    /\ inSeeks' = CountSeek(inSeeks)
    /\ UNCHANGED <<progVars, inOffset, inAvail, read_offset, w_size>>
    /\ UNCHANGED <<consumers, cpc, carg, cret, returned>>

\* else if (... offset != input->GetOffset() && !IsAvailable()):
\* input->Seek(lock, offset) begins
WorkerCorrectBegin ==
    /\ wpc = "loop" /\ ~stop /\ ~seek
    /\ StalePosition
    /\ wpc' = "in_correct"
    /\ io_target' = offset
    /\ inSeeks' = CountSeek(inSeeks)
    /\ UNCHANGED <<progVars, inOffset, inAvail, read_offset, w_size>>
    /\ UNCHANGED <<consumers, cpc, carg, cret, returned>>

\* else if (... input->IsAvailable() && !input->IsEOF()): with no writable
\* span the worker goes idle or repositions the input, else input->Read()
\* begins
WorkerPrefetch ==
    /\ wpc = "loop" /\ ~stop /\ ~seek
    /\ ~StalePosition
    /\ CanPrefetch
    /\ IF WriteSize(buffer, inOffset) = 0 THEN
           IF IsAvailable(offset, buffer) THEN
               /\ idle' = TRUE
               /\ UNCHANGED <<wpc, io_target, inSeeks, read_offset, w_size>>
           ELSE
               /\ wpc' = "in_reseek"
               /\ io_target' = offset
               /\ inSeeks' = CountSeek(inSeeks)
               /\ UNCHANGED <<idle, read_offset, w_size>>
       ELSE
           /\ wpc' = "in_read"
           /\ read_offset' = inOffset
           /\ w_size' = WriteSize(buffer, inOffset)
           /\ UNCHANGED <<idle, io_target, inSeeks>>
    /\ UNCHANGED <<offset, buffer, stop, seek, seek_offset, seek_error, read_error>>
    /\ UNCHANGED <<inOffset, inAvail>>
    /\ UNCHANGED <<consumers, cpc, carg, cret, returned>>

\* else wake_cond.wait(lock)
WorkerWait ==
    /\ wpc = "loop" /\ ~stop /\ ~seek
    /\ ~StalePosition
    /\ ~CanPrefetch
    /\ wpc' = "waiting"
    /\ UNCHANGED <<progVars, inputVars, io_target, read_offset, w_size>>
    /\ UNCHANGED <<consumers, cpc, carg, cret, returned>>

\* faulty variant of CaughtIn: the failed stale-position reposition is stored
\* as the seek error it really is
CaughtInSeekError(pcv) ==
    IF pcv \in {"in_seek", "in_correct"} THEN "seek_error" ELSE "read_error"

\* where the catch clause around the input call in flight stores the
\* exception
CaughtIn(pcv) == IF pcv = "in_seek" THEN "seek_error" ELSE "read_error"

\* the error slots after the input call in flight returned (ok) or threw
SeekErrorAfter(pcv, ok) == seek_error \/ (~ok /\ CaughtIn(pcv) = "seek_error")
ReadErrorAfter(pcv, ok) == read_error \/ (~ok /\ CaughtIn(pcv) = "read_error")

\* the input->Seek(lock, seek_offset) of the first branch returns (ok) or
\* throws; av is what input->IsAvailable() says afterwards
WorkerSeekEnd(ok, av) ==
    /\ wpc = "in_seek"
    /\ inOffset' = IF ok THEN io_target ELSE inOffset
    /\ inAvail' = av
    /\ seek_error' = SeekErrorAfter(wpc, ok)
    /\ read_error' = ReadErrorAfter(wpc, ok)
    /\ idle' = FALSE
    /\ seek' = FALSE
    /\ cpc' \in NotifyClient(cpc)
    /\ wpc' = "loop"
    /\ io_target' = 0
    /\ UNCHANGED <<offset, buffer, stop, seek_offset>>
    /\ UNCHANGED <<inSeeks, read_offset, w_size>>
    /\ UNCHANGED <<consumers, carg, cret, returned>>

\* client_cond.notify_one() after a worker-initiated input->Seek(): only the
\* reposition inside the prefetch step does it, in its catch clause
RepositionNotifies(pcv, ok) == pcv = "in_reseek" /\ ~ok

\* the input->Seek(lock, offset) of the second branch, or the one of the
\* prefetch step, returns (ok) or throws
WorkerRepositionEnd(ok, av) ==
    /\ wpc \in {"in_correct", "in_reseek"}
    /\ inOffset' = IF ok THEN io_target ELSE inOffset
    /\ inAvail' = av
    /\ seek_error' = SeekErrorAfter(wpc, ok)
    /\ read_error' = ReadErrorAfter(wpc, ok)
    /\ IF RepositionNotifies(wpc, ok)
       THEN cpc' \in NotifyClient(cpc)
       ELSE cpc' = cpc
    /\ wpc' = "loop"
    /\ io_target' = 0
    /\ UNCHANGED <<offset, buffer, stop, seek, seek_offset, idle>>
    /\ UNCHANGED <<inSeeks, read_offset, w_size>>
    /\ UNCHANGED <<consumers, carg, cret, returned>>

\* faulty variant of CommitStart: commits at the consumer's offset
CommitAtOffset(ro, off) == off

\* the first position buffer.Commit() marks as defined
CommitStart(ro, off) == ro

\* input->Read(lock, w.data, w.size) returns nbytes (ok) or throws; then
\* client_cond.notify_one()
WorkerReadEnd(ok, nbytes, av) ==
    /\ wpc = "in_read"
    /\ nbytes \in 1..w_size
    /\ IF ok THEN
           /\ buffer' = Commit(buffer, CommitStart(read_offset, offset),
                               CommitStart(read_offset, offset) + nbytes,
                               SourceBytes(inOffset, nbytes))
           /\ inOffset' = inOffset + nbytes
       ELSE
           /\ UNCHANGED <<buffer, inOffset>>
    /\ seek_error' = SeekErrorAfter(wpc, ok)
    /\ read_error' = ReadErrorAfter(wpc, ok)
    /\ inAvail' = av
    /\ cpc' \in NotifyClient(cpc)
    /\ wpc' = "loop"
    /\ read_offset' = 0
    /\ w_size' = 0
    /\ UNCHANGED <<offset, stop, seek, seek_offset, idle>>
    /\ UNCHANGED <<inSeeks, io_target>>
    /\ UNCHANGED <<consumers, carg, cret, returned>>

\* wake_cond.wait(lock) returns without a notification
SpuriousWorkerWake ==
    /\ wpc = "waiting"
    /\ wpc' = "ready"
    /\ UNCHANGED <<progVars, inputVars, io_target, read_offset, w_size>>
    /\ UNCHANGED <<consumers, cpc, carg, cret, returned>>

\* data arrives at the input, which now is available; the input tells its
\* handler (input->SetHandler(this)), which wakes the worker
SourceReady ==
    /\ ~inAvail /\ LockFree
    /\ inAvail' = TRUE
    /\ wpc' = NotifyWorker(wpc)
    /\ UNCHANGED <<progVars, inOffset, inSeeks, io_target, read_offset, w_size>>
    /\ UNCHANGED <<consumers, cpc, carg, cret, returned>>

\* ----------------------------------------------------------- specifications
InitWith(cs) ==
    /\ offset = 0
    /\ buffer = [p \in 0..(Size - 1) |-> NoData]
    /\ stop = FALSE
    /\ seek = FALSE
    /\ seek_offset = 0
    /\ idle = FALSE
    /\ seek_error = FALSE
    /\ read_error = FALSE
    /\ inOffset = 0
    /\ inAvail \in BOOLEAN
    /\ inSeeks = 0
    /\ wpc = "ready"
    /\ io_target = 0
    /\ read_offset = 0
    /\ w_size = 0
    /\ consumers = cs
    /\ cpc = [c \in Threads |-> "idle"]
    /\ carg = [c \in Threads |-> 0]
    /\ cret = [c \in Threads |-> NoRet]
    /\ returned = 0

\* one consumer thread
Init == InitWith({"c1"})

ConsumerStep ==
    \/ \E c \in Threads, s \in 1..MaxLen : ReadCall(c, s)
    \/ \E c \in Threads : ReadWake(c)
    \/ \E c \in Threads, new_offset \in 0..(Size + 1) : SeekCall(c, new_offset)
    \/ \E c \in Threads : SeekWake(c)
    \/ \E c \in Threads : SpuriousClientWake(c)

\* the steps the worker thread takes by itself
WorkerRun ==
    \/ WorkerAcquire
    \/ WorkerExit
    \/ WorkerSeekBegin
    \/ WorkerCorrectBegin
    \/ WorkerPrefetch
    \/ WorkerWait
    \/ \E ok \in BOOLEAN, av \in BOOLEAN : WorkerSeekEnd(ok, av)
    \/ \E ok \in BOOLEAN, av \in BOOLEAN : WorkerRepositionEnd(ok, av)
    \/ \E ok \in BOOLEAN, nbytes \in 1..Size, av \in BOOLEAN :
           WorkerReadEnd(ok, nbytes, av)

WorkerStep == WorkerRun \/ SpuriousWorkerWake

Next == ConsumerStep \/ WorkerStep \/ SourceReady \/ Destroy

\* every interleaving of consumer calls, worker steps, failures of the input
\* and destruction
Spec == Init /\ [][Next]_vars

\* Spec with a scheduler that runs the worker thread and lets a woken
\* consumer, and the input's notification, get the mutex; every call to the
\* input ends, by returning or by throwing
FairSpec ==
    /\ Init
    /\ [][Next]_vars
    /\ WF_vars(WorkerRun)
    /\ SF_vars(SourceReady)
    /\ SF_vars(\E c \in Threads : ReadWake(c))
    /\ SF_vars(\E c \in Threads : SeekWake(c))

\* read calls only, an input that never fails: no Seek(), no destruction
NextRead ==
    \/ \E c \in Threads, s \in 1..MaxLen : ReadCall(c, s)
    \/ \E c \in Threads : ReadWake(c)
    \/ \E c \in Threads : SpuriousClientWake(c)
    \/ WorkerAcquire
    \/ WorkerPrefetch
    \/ WorkerWait
    \/ \E nbytes \in 1..Size, av \in BOOLEAN : WorkerReadEnd(TRUE, nbytes, av)
    \/ SpuriousWorkerWake
    \/ SourceReady

\* the worker thread is scheduled, a consumer that keeps trying gets the
\* mutex, every input->Read() returns and the input becomes available again
LiveSpec ==
    /\ Init
    /\ [][NextRead]_vars
    /\ WF_vars(WorkerAcquire)
    /\ WF_vars(WorkerPrefetch)
    /\ WF_vars(WorkerWait)
    /\ WF_vars(\E nbytes \in 1..Size, av \in BOOLEAN : WorkerReadEnd(TRUE, nbytes, av))
    /\ SF_vars(SourceReady)
    /\ SF_vars(\E c \in Threads : ReadWake(c))
    /\ SF_vars(\E c \in Threads, s \in 1..MaxLen : ReadCall(c, s))

\* the steps of the worker thread while stop is not set
WorkerLoop ==
    \/ WorkerAcquire
    \/ WorkerSeekBegin
    \/ WorkerCorrectBegin
    \/ WorkerPrefetch
    \/ WorkerWait
    \/ \E ok \in BOOLEAN, av \in BOOLEAN : WorkerSeekEnd(ok, av)
    \/ \E ok \in BOOLEAN, av \in BOOLEAN : WorkerRepositionEnd(ok, av)
    \/ \E ok \in BOOLEAN, nbytes \in 1..Size, av \in BOOLEAN :
           WorkerReadEnd(ok, nbytes, av)

\* two consumer threads
InitTwo == InitWith({"c1", "c2"})

\* thread c has not called the stream yet
FirstCall(c) == cret[c] = NoRet

\* two concurrent calls and no destruction: thread c1 calls Read() once,
\* thread c2 calls Seek() once
NextTwoCalls ==
    \/ \E s \in 1..MaxLen : FirstCall("c1") /\ ReadCall("c1", s)
    \/ ReadWake("c1")
    \/ \E new_offset \in 0..(Size + 1) : FirstCall("c2") /\ SeekCall("c2", new_offset)
    \/ SeekWake("c2")
    \/ \E c \in Threads : SpuriousClientWake(c)
    \/ WorkerLoop
    \/ SpuriousWorkerWake
    \/ SourceReady

\* the scheduler of FairSpec for the two concurrent calls: the worker thread
\* runs, every call to the input ends, and a woken consumer gets the mutex
TwoCallsSpec ==
    /\ InitTwo
    /\ [][NextTwoCalls]_vars
    /\ WF_vars(WorkerLoop)
    /\ SF_vars(SourceReady)
    /\ SF_vars(ReadWake("c1"))
    /\ SF_vars(SeekWake("c2"))

\* the steps of the worker thread with an input that never fails
WorkerLoopNoFail ==
    \/ WorkerAcquire
    \/ WorkerSeekBegin
    \/ WorkerCorrectBegin
    \/ WorkerPrefetch
    \/ WorkerWait
    \/ \E av \in BOOLEAN : WorkerSeekEnd(TRUE, av)
    \/ \E av \in BOOLEAN : WorkerRepositionEnd(TRUE, av)
    \/ \E nbytes \in 1..Size, av \in BOOLEAN : WorkerReadEnd(TRUE, nbytes, av)

NextNoFail == ConsumerStep \/ WorkerLoopNoFail \/ SpuriousWorkerWake \/ SourceReady

\* one consumer, an input that never fails, no destruction, and the
\* scheduler of FairSpec
NoFailSpec ==
    /\ Init
    /\ [][NextNoFail]_vars
    /\ WF_vars(WorkerLoopNoFail)
    /\ SF_vars(SourceReady)
    /\ SF_vars(\E c \in Threads : ReadWake(c))
    /\ SF_vars(\E c \in Threads : SeekWake(c))

\* ------------------------------------------------------------------ claims
InRead(c) == cpc[c] \in {"read_wait", "read_woken"}
InSeek(c) == cpc[c] \in {"seek_wait", "seek_woken"}

\* C1: with an input that never fails and no Seek(), every Read() call
\* returns, a Read() at offset == size returns 0, the stream is read to its
\* end, and the bytes returned up to then sum to size
C1_ReadsDeliverWholeStream ==
    /\ \A c \in Threads : InRead(c) ~> (cpc[c] = "idle")
    /\ <>(cret["c1"].kind = "eof")
    /\ [](\A c \in Threads : cret[c].kind = "eof" => returned = Size)
    /\ [][\A c \in Threads :
            (offset = Size /\ cpc[c] = "idle" /\ cret'[c] # cret[c])
                => cret'[c].kind = "eof"]_vars

C1_Witness ==
    /\ cret["c1"].kind = "eof"
    /\ returned = Size
    /\ offset = Size

\* C2: the bytes Read() copies out for position p are the input's bytes at
\* position p, and so is every defined byte of the buffer, whatever the
\* consumer did while an input->Read() was in flight
C2_ReadReturnsSourceBytes ==
    /\ \A c \in Threads :
          cret[c].kind = "data" =>
              \A i \in DOMAIN cret[c].bytes :
                  cret[c].bytes[i] = SourceByte(cret[c].pos + i - 1)
    /\ \A p \in 0..(Size - 1) : buffer[p] \in {NoData, SourceByte(p)}

\* a Read() returned bytes from a position other than 0 after a Seek(), and an
\* input->Read() is in flight at a position that is not the consumer's
C2_Witness ==
    /\ cret["c1"].kind = "data"
    /\ cret["c1"].pos > 0
    /\ wpc = "in_read"
    /\ read_offset # offset
    /\ seek

C4_ReadErrorSignalsConsumer ==
    [][(~read_error /\ read_error' /\ Waiters(cpc) # {}) => cpc' # cpc]_vars

\* the last call of c that returned was a successful Seek(x)
SoughtTo(c, x) == cret[c].kind \in {"seek_ok", "seek_noop"} /\ cret[c].pos = x

\* C5 as stated: a Seek(x) right after a successful Seek(x), x < size, is a
\* no-op: it does not set seek, does not wait, starts no input->Seek(), and
\* offset is x before and after it
C5_SecondSeekIsNoOp ==
    [][\A c \in consumers, x \in 0..(Size - 1) :
          (SoughtTo(c, x) /\ SeekCall(c, x)) =>
              /\ offset = x /\ offset' = x
              /\ ~seek'
              /\ cpc'[c] = "idle"
              /\ inSeeks' = inSeeks /\ wpc' = wpc]_vars

\* C5 amended: offset is x before and after a Seek(x) that follows a
\* successful Seek(x), x < size; the second call is a no-op exactly when the
\* buffer has data at x, else it sets seek for x again and waits for the
\* worker; a Seek() that ends without error after waiting leaves offset at
\* its target
C5_SecondSeekNoOpIffBuffered ==
    /\ [][\A c \in consumers, x \in 0..(Size - 1) :
            (SoughtTo(c, x) /\ SeekCall(c, x)) =>
                /\ offset = x /\ offset' = x
                /\ IF HasData(buffer, x)
                   THEN /\ ~seek'
                        /\ cpc'[c] = "idle"
                        /\ inSeeks' = inSeeks /\ wpc' = wpc
                   ELSE /\ seek' /\ seek_offset' = x
                        /\ cpc'[c] = "seek_wait"]_vars
    /\ [][\A c \in consumers :
            (SeekWake(c) /\ cpc'[c] = "idle" /\ cret'[c].kind = "seek_ok")
                => offset' = cret'[c].pos]_vars

\* a second Seek(x) waits for the worker after the first one succeeded
C5_Witness ==
    /\ cpc["c1"] = "seek_wait"
    /\ SoughtTo("c1", carg["c1"])
    /\ cret["c1"].kind = "seek_ok"
    /\ offset = carg["c1"]
    /\ seek /\ seek_offset = offset

\* C6: Seek(X) with data buffered at X < size returns without waiting, sets
\* offset = X and changes nothing else: not seek, seek_offset, idle, the error
\* slots, the buffer, the input's position and seek count, nor the worker
C6_NoOpSeekFrame ==
    [][\A c \in consumers, x \in 0..(Size - 1) :
          (HasData(buffer, x) /\ SeekCall(c, x)) =>
              /\ cpc'[c] = "idle"
              /\ cret'[c].kind = "seek_noop"
              /\ offset' = x
              /\ UNCHANGED <<seek, seek_offset, idle, seek_error, read_error>>
              /\ UNCHANGED <<buffer, inOffset, inSeeks, wpc, io_target>>]_vars

\* a no-op Seek() moved offset while an input->Read() stays in flight elsewhere
C6_Witness ==
    /\ cret["c1"].kind = "seek_noop"
    /\ offset = cret["c1"].pos
    /\ wpc = "in_read"
    /\ read_offset # offset
    /\ ~seek

\* thread c runs one pass of Read() with destination size s
ReadPass(c, s) ==
    \/ cpc[c] = "idle" /\ ReadCall(c, s)
    \/ cpc[c] = "read_woken" /\ carg[c] = s /\ ReadWake(c)

\* C7: with data at offset, Read() returns at once between 1 and
\* min(s, defined run) bytes and advances offset by as much, leaving a pending
\* read_error pending; it returns 0 only at offset == size; else it waits or
\* fails with the pending read_error
C7_ReadOutcome ==
    [][\A c \in consumers, s \in 1..MaxLen :
          ReadPass(c, s) =>
              IF HasData(buffer, offset) THEN
                  /\ cpc'[c] = "idle"
                  /\ cret'[c].kind = "data"
                  /\ offset' - offset >= 1
                  /\ offset' - offset <= Min(s, DefinedSize(buffer, offset))
                  /\ DOMAIN cret'[c].bytes = 1..(offset' - offset)
                  /\ read_error' = read_error
              ELSE IF cpc'[c] = "idle" /\ cret'[c].kind = "eof" THEN
                  /\ offset = Size
                  /\ offset' = offset
              ELSE
                  /\ offset < Size
                  /\ offset' = offset
                  /\ IF read_error
                     THEN cpc'[c] = "idle" /\ cret'[c].kind = "read_error"
                     ELSE cpc'[c] = "read_wait"]_vars

\* a Read() returned data and a read_error is pending
C7_Witness ==
    /\ cret["c1"].kind = "data"
    /\ cpc["c1"] = "idle"
    /\ read_error
    /\ HasData(buffer, cret["c1"].pos)

\* C8: a failed input->Seek() for a Seek() request goes to seek_error only,
\* a failed reposition or input->Read() to read_error only; Seek() never
\* touches or raises read_error, Read() never touches or raises seek_error
C8_ErrorRouting ==
    /\ [][(wpc = "in_seek") =>
            \A ok \in BOOLEAN, av \in BOOLEAN :
                WorkerSeekEnd(ok, av) =>
                    /\ seek_error' = (seek_error \/ ~ok)
                    /\ read_error' = read_error]_vars
    /\ [][(wpc \in {"in_correct", "in_reseek"}) =>
            \A ok \in BOOLEAN, av \in BOOLEAN :
                WorkerRepositionEnd(ok, av) =>
                    /\ read_error' = (read_error \/ ~ok)
                    /\ seek_error' = seek_error]_vars
    /\ [][(wpc = "in_read") =>
            \A ok \in BOOLEAN, nbytes \in 1..Size, av \in BOOLEAN :
                WorkerReadEnd(ok, nbytes, av) =>
                    /\ read_error' = (read_error \/ ~ok)
                    /\ seek_error' = seek_error]_vars
    /\ [][\A c \in consumers :
            (cpc[c] \in {"idle", "seek_woken"} /\ cpc' # cpc) =>
                \A x \in 0..(Size + 1) :
                    (SeekCall(c, x) \/ SeekWake(c)) =>
                        /\ read_error' = read_error
                        /\ cpc'[c] = "idle" => cret'[c].kind # "read_error"]_vars
    /\ [][\A c \in consumers, s \in 1..MaxLen :
            ReadPass(c, s) =>
                /\ seek_error' = seek_error
                /\ cpc'[c] = "idle" => cret'[c].kind # "seek_error"]_vars
    /\ [][(seek_error /\ ~seek_error') =>
            \E c \in consumers : SeekWake(c) /\ cret'[c].kind = "seek_error"]_vars
    /\ [][(read_error /\ ~read_error') =>
            \E c \in consumers, s \in 1..MaxLen :
                ReadPass(c, s) /\ cret'[c].kind = "read_error"]_vars

\* Seek() failed with the seek error while a read_error stays pending
C8_Witness ==
    /\ cret["c1"].kind = "seek_error"
    /\ ~seek_error
    /\ read_error

\* thread c's Read() ends by rethrowing read_error
ReadRaises(c) ==
    /\ \E s \in 1..MaxLen : ReadPass(c, s)
    /\ cpc'[c] = "idle"
    /\ cret'[c].kind = "read_error"

\* C9: a Read() that fails empties read_error and wakes the worker, which is
\* then neither waiting, idle nor behind an error; read_error is set again
\* only by a failure in the worker; the worker starts no prefetch and no
\* stale-position reposition while read_error is pending, and with no error
\* pending it goes to wait only when idle or when the input has nothing to
\* read
C9_ReadErrorConsumedOnce ==
    /\ [][\A c \in consumers :
            ReadRaises(c) =>
                /\ read_error /\ ~read_error'
                /\ wpc' # "waiting"
                /\ ~idle']_vars
    /\ [][(~read_error /\ read_error') =>
            /\ wpc \in {"in_correct", "in_reseek", "in_read"}
            /\ wpc' = "loop"]_vars
    /\ [][(WorkerCorrectBegin \/ WorkerPrefetch) => ~read_error]_vars
    /\ [][WorkerWait =>
            (read_error \/ idle \/ ~inAvail \/ InputIsEOF(inOffset))]_vars

\* after a Read() failed, the next Read() waits and the worker reads again
C9_Witness ==
    /\ cret["c1"].kind = "read_error"
    /\ cpc["c1"] = "read_wait"
    /\ ~read_error
    /\ wpc = "in_read"

\* C10: while a Seek() waits with seek set, offset keeps its value; the call
\* ends once seek is cleared: with seek_error set it fails, empties seek_error
\* and leaves offset alone, else it sets offset to its target
C10_BlockingSeekOffset ==
    /\ [][\A c \in consumers : (InSeek(c) /\ seek) => offset' = offset]_vars
    /\ [][\A c \in consumers, x \in 0..(Size + 1) :
            (SeekCall(c, x) /\ cpc'[c] = "seek_wait") => offset' = offset]_vars
    /\ [][\A c \in consumers :
            (SeekWake(c) /\ ~seek) =>
                IF seek_error
                THEN /\ offset' = offset
                     /\ ~seek_error'
                     /\ cpc'[c] = "idle" /\ cret'[c].kind = "seek_error"
                ELSE /\ offset' = carg[c]
                     /\ cpc'[c] = "idle" /\ cret'[c].kind = "seek_ok"]_vars

\* a Seek() that waited failed and left offset where it was
C10_Witness ==
    /\ cret["c1"].kind = "seek_error"
    /\ cpc["c1"] = "idle"
    /\ offset # cret["c1"].pos
    /\ ~seek_error


\* C11 as stated: with one thread blocked in Read() and one blocked in Seek(),
\* no wake-up is lost: once the worker has cleared seek the Seek() call
\* returns, and once data is buffered at offset or read_error is set the
\* Read() call returns
C11_NoWakeupLost ==
    /\ (InSeek("c2") /\ ~seek) ~> (cpc["c2"] = "idle")
    /\ (InRead("c1") /\ (HasData(buffer, offset) \/ read_error))
           ~> (cpc["c1"] = "idle")

\* the worker is inside a call to the input
InFlight(pcv) == pcv \in {"in_seek", "in_correct", "in_reseek", "in_read"}

\* C12: stop is never cleared; once stop is set the worker begins no
\* input->Seek() and no input->Read(), a call in flight ends, and the worker
\* leaves its loop from wherever it is (waiting on wake_cond included), so
\* that Join() returns
C12_WorkerStops ==
    /\ [][stop => stop']_vars
    /\ [][stop => (inSeeks' = inSeeks /\ (InFlight(wpc') => wpc' = wpc))]_vars
    /\ [][(stop /\ wpc = "loop") => wpc' \in {"loop", "done"}]_vars
    /\ stop ~> (wpc = "done")

\* the worker has left its loop without servicing the seek that was requested
C12_Witness ==
    /\ stop
    /\ wpc = "done"
    /\ seek
    /\ cpc["c1"] = "seek_wait"

\* C13: offset stays within [0, size] whatever Read() and Seek() calls are
\* made, a Seek() beyond size included, and whatever the worker does
C13_OffsetInRange == 0 <= offset /\ offset <= Size

\* a Seek() beyond size has returned
C13_Witness ==
    /\ cret["c1"].kind = "seek_eof"
    /\ cret["c1"].pos > Size
    /\ offset = Size

\* the worker has serviced the Seek() of thread c without error, and the call
\* has not returned yet: offset is still the one from before the call
SeekServiced(c) == InSeek(c) /\ ~seek /\ ~seek_error

\* C14 as stated: after the worker has serviced a Seek(T) without error, and
\* until the call returns with offset = T, the worker begins no other
\* input->Seek(), and an input->Read() it begins reads at T
C14_PrefetchResumesAtTarget ==
    [][\A c \in consumers :
          SeekServiced(c) =>
              /\ inSeeks' = inSeeks
              /\ (wpc' = "in_read" /\ wpc # "in_read") => read_offset' = carg[c]]_vars

\* C15: while seek is set and stop is not, the only call to the input the
\* worker begins is input->Seek(seek_offset), whatever idle and read_error
\* are; when that call ends, by returning or by throwing, idle and seek are
\* clear and the waiting consumer is woken; a Seek() call that waits returns,
\* unless the stream is destroyed
C15_SeekServicedFirst ==
    /\ [][(seek /\ ~stop /\ InFlight(wpc') /\ wpc' # wpc)
             => (wpc' = "in_seek" /\ io_target' = seek_offset)]_vars
    /\ [][(wpc = "in_seek" /\ wpc' # wpc)
             => /\ ~idle' /\ ~seek'
                /\ \A c \in consumers :
                      cpc[c] = "seek_wait" => cpc'[c] = "seek_woken"]_vars
    /\ \A c \in Threads : InSeek(c) ~> (cpc[c] = "idle" \/ stop)

\* the worker services a seek while idle is set
C15_Witness ==
    /\ wpc = "in_seek"
    /\ io_target = seek_offset
    /\ idle
    /\ cpc["c1"] = "seek_wait"

\* C16 as stated: whenever the worker waits on wake_cond, idle is set or a
\* read error is pending
C16_WaitsOnlyIdleOrError == (wpc = "waiting") => (idle \/ read_error)

\* C16 amended: whenever the worker waits on wake_cond, idle is set, or a
\* read error is pending, or the input has no data available now, or the
\* input is at its end of stream
C16_WaitsOnlyWithoutWork ==
    (wpc = "waiting") =>
        (idle \/ read_error \/ ~inAvail \/ InputIsEOF(inOffset))

\* the worker waits at the input's end of stream, neither idle nor behind an
\* error
C16_Witness ==
    /\ wpc = "waiting"
    /\ ~idle /\ ~read_error
    /\ inAvail /\ InputIsEOF(inOffset)

\* C17: with an input that never fails, a Read() that returns data and
\* leaves offset where nothing is buffered clears idle and wakes the worker;
\* a stale-position reposition goes to offset; and a Read() that waits,
\* also after a no-op Seek() left the input somewhere else than offset,
\* returns data
C17_ReadAfterNoOpSeekReturns ==
    /\ [][\A c \in consumers :
            (offset' # offset /\ cret'[c].kind = "data"
               /\ ~IsAvailable(offset', buffer))
                => (~idle' /\ wpc' # "waiting")]_vars
    /\ [][(wpc' = "in_correct" /\ wpc # "in_correct")
             => (io_target' = offset /\ offset < Size)]_vars
    /\ \A c \in Threads :
          (InRead(c) /\ cret[c].kind = "data") ~> (cpc[c] = "idle")

\* after a Seek(), the buffered run was read to its end and Read() waits
\* while the worker moves the input from its end of stream to offset
C17_Witness ==
    /\ returned < 0
    /\ cret["c1"].kind = "data"
    /\ cpc["c1"] = "read_wait"
    /\ wpc = "in_correct"
    /\ io_target = offset
    /\ InputIsEOF(inOffset)

\* C18 as stated: whenever the mutex is free, idle implies that the buffer has
\* data at offset or offset = size; the worker sets idle only when there is
\* no writable span at the input's position and data is available at offset;
\* a consumer step that moves offset to a position without data clears idle
C18_IdleMeansDataAtOffset ==
    /\ []((LockFree /\ idle) => IsAvailable(offset, buffer))
    /\ [][(~idle /\ idle')
             => /\ wpc = "loop"
                /\ WriteSize(buffer, inOffset) = 0
                /\ IsAvailable(offset, buffer)]_vars
    /\ [][(offset' # offset /\ ~IsAvailable(offset', buffer)) => ~idle']_vars

\* thread c waits in Seek() for a target without data while a read error is
\* pending and the worker reads nothing
SeekBehindError(c) ==
    /\ InSeek(c)
    /\ read_error
    /\ ~HasData(buffer, carg[c])
    /\ wpc \notin {"in_correct", "in_reseek", "in_read"}

\* the Seek() of thread c has returned without error, offset is its target,
\* nothing is buffered there and the read error is still pending
ErrorSurvivedSeek(c) ==
    /\ cpc[c] = "idle"
    /\ cret[c].kind = "seek_ok" /\ cret[c].pos = offset
    /\ read_error
    /\ ~HasData(buffer, offset)
    /\ wpc \notin {"in_correct", "in_reseek", "in_read"}

\* C19: no step of Seek() changes read_error or fails with it; while
\* read_error is pending the only call to the input the worker begins is the
\* one that services a seek; a Seek() that has to wait while read_error is
\* pending returns, if without error, with offset at its target, nothing
\* buffered there and read_error still pending; that lasts until the next
\* call, and if that is a Read() it fails at that offset and empties
\* read_error
C19_ReadErrorSurvivesSeek ==
    /\ [][\A c \in consumers :
            ((\E n \in 0..(Size + 1) : SeekCall(c, n)) \/ SeekWake(c))
                => /\ read_error' = read_error
                   /\ cret'[c] = cret[c] \/ cret'[c].kind # "read_error"]_vars
    /\ [][(read_error /\ InFlight(wpc') /\ wpc' # wpc) => wpc' = "in_seek"]_vars
    /\ [][\A c \in consumers :
            (read_error /\ cpc[c] = "idle" /\ cpc'[c] = "seek_wait")
                => SeekBehindError(c)']_vars
    /\ [][\A c \in consumers :
            SeekBehindError(c) =>
                \/ SeekBehindError(c)'
                \/ /\ cpc'[c] = "idle"
                   /\ cret'[c].kind = "seek_ok" => ErrorSurvivedSeek(c)']_vars
    /\ [][\A c \in consumers :
            ErrorSurvivedSeek(c) =>
                \/ ErrorSurvivedSeek(c)'
                \/ \E n \in 0..(Size + 1) : SeekCall(c, n)
                \/ /\ ReadRaises(c)
                   /\ ~read_error'
                   /\ cret'[c].pos = offset]_vars

\* a Seek() that waited has returned while the read error stays pending
C19_Witness == ErrorSurvivedSeek("c1") /\ offset < Size

\* C20: with a buffer whose writable span at p is empty exactly when p is
\* filled, a prefetch step that finds no writable span at the input's
\* position finds data available at offset and sets idle; the worker never
\* takes the branch of the prefetch step that repositions the input to
\* offset
C20_PrefetchNeverRepositions ==
    /\ [][(WorkerPrefetch /\ WriteSize(buffer, inOffset) = 0)
             => (IsAvailable(offset, buffer) /\ idle' /\ wpc' = "loop")]_vars
    /\ [](wpc # "in_reseek")

\* the prefetch step has found no writable span and has set idle, with the
\* input somewhere else than offset
C20_Witness ==
    /\ wpc = "loop"
    /\ idle
    /\ ~seek /\ ~read_error
    /\ inAvail /\ ~InputIsEOF(inOffset)
    /\ WriteSize(buffer, inOffset) = 0
    /\ offset # inOffset

====
